---------------------------- MODULE Spec2Model ----------------------------
(***************************************************************************)
(* Model of amadeus_meteo_v3.py: a Streamlit script that is run from top   *)
(* to bottom once per user event.  st.session_state (page, have_results,   *)
(* active_cats, use_preset, cat_filter, cat_filter_new) and the widget     *)
(* values survive between runs; everything else is recomputed.             *)
(*                                                                         *)
(* Numbers: temperatures and precipitation are integers in tenths of a     *)
(* unit; an average temperature is the exact fraction <<num, den>> in      *)
(* tenths of a degree, and float("nan") is the fraction with den = 0.      *)
(* Ratings are tenths, prices are cents.  A dictionary key that may be     *)
(* missing is a sequence of length 0 (missing) or 1 (present).             *)
(***************************************************************************)
EXTENDS Integers, Sequences, FiniteSets

VARIABLES
    \* st.session_state
    page, have_results, active_cats, use_preset, cat_filter, cat_filter_new,
    \* widget values
    city, page_size, sort_order, ref_date,
    \* what the last run computed and rendered
    view, acts_filtered, pages, page_slice,
    lookups, weather_rows, rain_flag, avg_temp,
    \* history: the event that started the last run and the weather service's
    \* answers to it
    event, wx,
    \* further history, kept only by the specification that says so in
    \* recording: the events not yet followed by a rendered results page
    \* ("awaiting"); whether a preset was ever applied, and the selection made
    \* by hand after that and since the preset button was last pressed ("manual")
    recording, awaiting, applied, manual

vars == <<page, have_results, active_cats, use_preset, cat_filter, cat_filter_new,
          city, page_size, sort_order, ref_date,
          view, acts_filtered, pages, page_slice,
          lookups, weather_rows, rain_flag, avg_temp,
          event, wx, recording, awaiting, applied, manual>>

-----------------------------------------------------------------------------
(* Small helpers *)

Absent == <<>>
Some(v) == <<v>>

Max2(a, b) == IF a >= b THEN a ELSE b
Min2(a, b) == IF a <= b THEN a ELSE b

\* Python's a[lo:hi] for 0 <= lo <= hi: the bounds are cut to the length.
Slice(a, lo, hi) == SubSeq(a, Min2(lo, Len(a)) + 1, Min2(hi, Len(a)))

RECURSIVE SumSeq(_)
SumSeq(s) == IF s = <<>> THEN 0 ELSE Head(s) + SumSeq(Tail(s))

RECURSIVE Concat(_)
Concat(ss) == IF ss = <<>> THEN <<>> ELSE Head(ss) \o Concat(Tail(ss))

RECURSIVE SelectSeqBy(_, _)
SelectSeqBy(s, keep) ==
    IF s = <<>> THEN <<>>
    ELSE (IF Head(s) \in keep THEN <<Head(s)>> ELSE <<>>) \o SelectSeqBy(Tail(s), keep)

-----------------------------------------------------------------------------
(* Dates: datetime.date as <<year, month, day>>, and date - timedelta(days) *)
(* through the proleptic Gregorian ordinal, as datetime computes it.        *)

IsLeap(y) == y % 4 = 0 /\ (y % 100 # 0 \/ y % 400 = 0)

DaysInMonth(y, m) ==
    IF m = 2 THEN (IF IsLeap(y) THEN 29 ELSE 28)
    ELSE IF m \in {4, 6, 9, 11} THEN 30 ELSE 31

\* Days of the year before the first of month m.
DAYS_BEFORE_MONTH == <<0, 31, 59, 90, 120, 151, 181, 212, 243, 273, 304, 334>>
DaysBeforeMonth(y, m) == DAYS_BEFORE_MONTH[m] + (IF m > 2 /\ IsLeap(y) THEN 1 ELSE 0)

DaysBeforeYear(y) ==
    (y - 1) * 365 + ((y - 1) \div 4) - ((y - 1) \div 100) + ((y - 1) \div 400)

ToOrdinal(dt) == DaysBeforeYear(dt[1]) + DaysBeforeMonth(dt[1], dt[2]) + dt[3]

FromOrdinal(ord) ==
    LET n0   == ord - 1
        n400 == n0 \div 146097
        r400 == n0 % 146097
        n100 == r400 \div 36524
        r100 == r400 % 36524
        n4   == r100 \div 1461
        r4   == r100 % 1461
        n1   == r4 \div 365
        n    == r4 % 365
        year == n400 * 400 + 1 + n100 * 100 + n4 * 4 + n1
    IN  IF n1 = 4 \/ n100 = 4 THEN <<year - 1, 12, 31>>
        ELSE LET guess == (n + 50) \div 32
                 month == IF DaysBeforeMonth(year, guess) > n THEN guess - 1 ELSE guess
             IN  <<year, month, n - DaysBeforeMonth(year, month) + 1>>

\* ref - timedelta(days=365 * n)
LookbackDate(ref, n) == FromOrdinal(ToOrdinal(ref) - 365 * n)

\* range(1, 4)
Lookback == 3

-----------------------------------------------------------------------------
(* Open-Meteo: one answer per requested date.                               *)
(*   raise      requests.get raised (no connection, timeout)                *)
(*   http_error a status other than 200                                     *)
(*   empty      status 200 without "daily" data                             *)
(*   ok         status 200 with one day's values                            *)

Answer(kind, max, min, precip) ==
    [kind |-> kind, max |-> max, min |-> min, precip |-> precip]

NoAnswers == [n \in 1..Lookback |-> Answer("empty", 0, 0, 0)]

\* fetch_weather_once: the "daily" dictionary, or {} (here Absent).
fetch_weather_once(ans) ==
    IF ans.kind = "ok" THEN Some(ans) ELSE Absent

\* The date each of the three requests is made for.
LookupDates(ref) == [n \in 1..Lookback |-> LookbackDate(ref, n)]

\* requests.get raises inside fetch_weather_once, and nothing catches it: the
\* first request that raises ends last_three_years_weather and the run.
WeatherRaises(answers) == \E n \in 1..Lookback : answers[n].kind = "raise"
FirstRaise(answers) ==
    IF WeatherRaises(answers)
    THEN CHOOSE n \in 1..Lookback :
             /\ answers[n].kind = "raise"
             /\ \A m \in 1..(n - 1) : answers[m].kind # "raise"
    ELSE Lookback

Row(dt, data) ==
    [Year |-> dt[1], Max |-> data.max, Min |-> data.min, Precip |-> data.precip]

RECURSIVE RowsFrom(_, _, _)
RowsFrom(dates, answers, n) ==
    IF n > Lookback THEN <<>>
    ELSE LET data == fetch_weather_once(answers[n])
         IN  (IF data # Absent THEN <<Row(dates[n], data[1])>> ELSE <<>>)
             \o RowsFrom(dates, answers, n + 1)

\* The dates asked for, whether a request raised, and the rows returned.
last_three_years_weather(ref, answers) ==
    LET dates == LookupDates(ref)
    IN  [requested |-> SubSeq(dates, 1, FirstRaise(answers)),
         raised    |-> WeatherRaises(answers),
         rows      |-> IF WeatherRaises(answers) THEN <<>> ELSE RowsFrom(dates, answers, 1)]

NaN == <<0, 0>>
IsNaN(t) == t[2] = 0

Rainy(rows) == {i \in 1..Len(rows) : rows[i].Precip > 0}

classify_weather_any(rows) ==
    <<Cardinality(Rainy(rows)) >= 1,
      IF rows # <<>>
      THEN <<SumSeq([i \in 1..Len(rows) |-> rows[i].Max + rows[i].Min]), 2 * Len(rows)>>
      ELSE NaN>>
\* <<rain_flag, avg_temp>>: the mean of (Max + Min) / 2 is sum(Max + Min) / (2 * len).
classify_weather(rows) ==
    <<Cardinality(Rainy(rows)) >= 2,
      IF rows # <<>>
      THEN <<SumSeq([i \in 1..Len(rows) |-> rows[i].Max + rows[i].Min]), 2 * Len(rows)>>
      ELSE NaN>>

\* avg_t < 15 on floats: false when avg_t is NaN.  15 degrees is 150 tenths.
TempThreshold == 15
LessThan(t, degrees) == ~IsNaN(t) /\ t[1] < degrees * 10 * t[2]

RainPreset == <<"Museums", "Restaurants", "Historical", "Sightseeing">>
ColdPreset == <<"Museums", "Historical", "Tours", "Sightseeing">>
WarmPreset == <<"Wine", "Historical">>

preset_categories_le(rain, avg_t) ==
    IF rain THEN RainPreset
    ELSE IF ~IsNaN(avg_t) /\ avg_t[1] <= TempThreshold * 10 * avg_t[2] THEN ColdPreset
    ELSE WarmPreset
preset_categories(rain, avg_t) ==
    IF rain THEN RainPreset
    ELSE IF LessThan(avg_t, TempThreshold) THEN ColdPreset
    ELSE WarmPreset

-----------------------------------------------------------------------------
(* Activities: an activity is its index in the provider's catalogue.  Its   *)
(* text (name + " " + shortDescription, lower-cased) is the set of keywords *)
(* that occur in it; rating and price amount may be missing.                *)

CATEGORY_LIST == <<"Tours", "Museums", "Restaurants", "Wine", "Historical", "Sightseeing">>

KEYWORDS ==
    [c \in {CATEGORY_LIST[i] : i \in 1..Len(CATEGORY_LIST)} |->
        CASE c = "Tours"       -> {"tour"}
          [] c = "Museums"     -> {"museum"}
          [] c = "Restaurants" -> {"restaurant", "food"}
          [] c = "Wine"        -> {"wine"}
          [] c = "Historical"  -> {"castle", "palace", "cathedral", "ruins"}
          [] c = "Sightseeing" -> {"sightseeing", "view", "panorama"}]

Text(a) ==
    CASE a % 6 = 0 -> {"museum"}
      [] a % 6 = 1 -> {"tour", "wine"}
      [] a % 6 = 2 -> {"castle"}
      [] a % 6 = 3 -> {}
      [] a % 6 = 4 -> {"restaurant", "view"}
      [] a % 6 = 5 -> {"museum", "tour"}

Rating(a) == IF a % 4 = 0 THEN Absent ELSE Some(10 * (a % 5) + 5)
Price(a)  == IF a % 5 = 0 THEN Absent ELSE Some(((a * 37) % 90) * 100 + 500)

\* The provider's catalogue cut to its first n activities.
Catalogue(n) == [i \in 1..n |-> i]

\* kw_list, as the set of its members
kw_list(cats) == UNION {KEYWORDS[cats[i]] : i \in 1..Len(cats)}

Matches(a, kws) == kws = {} \/ \E kw \in kws : kw \in Text(a)

FilterActs(acts_raw, cats) ==
    LET kws  == kw_list(cats)
        keep == {a \in {acts_raw[i] : i \in 1..Len(acts_raw)} : Matches(a, kws)}
    IN  SelectSeqBy(acts_raw, keep)

\* Sort keys <<infinite, value>>: float(rating or -1), float(amount or inf).
RatingKey(a) == IF Rating(a) = Absent THEN <<0, -10>> ELSE <<0, Rating(a)[1]>>
PriceKey(a)  == IF Price(a) = Absent THEN <<1, 0>> ELSE <<0, Price(a)[1]>>
KeyLE(k1, k2) == k1[1] < k2[1] \/ (k1[1] = k2[1] /\ k1[2] <= k2[2])

SortKey(a, order) == IF order \in {"Rating-desc", "Rating-asc"} THEN RatingKey(a) ELSE PriceKey(a)
Reverse(order) == order \in {"Rating-desc", "Price-desc"}

\* list.sort is stable, also with reverse=True: x goes behind every element
\* that may not come after it.
Before(e, x, order) ==
    IF Reverse(order) THEN KeyLE(SortKey(x, order), SortKey(e, order))
    ELSE KeyLE(SortKey(e, order), SortKey(x, order))

InsertSorted(sorted, x, order) ==
    LET pos == Cardinality({j \in 1..Len(sorted) : Before(sorted[j], x, order)})
    IN  SubSeq(sorted, 1, pos) \o <<x>> \o SubSeq(sorted, pos + 1, Len(sorted))

RECURSIVE SortFrom(_, _, _)
SortFrom(sorted, rest, order) ==
    IF rest = <<>> THEN sorted
    ELSE SortFrom(InsertSorted(sorted, Head(rest), order), Tail(rest), order)

SortActs(acts, order) == IF order = "None" THEN acts ELSE SortFrom(<<>>, acts, order)

\* max(1, math.ceil(total / page_size))
TotalPages(total, size) == Max2(1, (total + size - 1) \div size)

\* max(1, min(page, pages))
ClampLow(p, n) == Max2(1, p)
Clamp(p, n) == Max2(1, Min2(p, n))

\* acts_filtered[(page - 1) * page_size : page * page_size]
PageSliceShort(acts, p, size) == Slice(acts, (p - 1) * size, p * size - 1)
PageSlice(acts, p, size) == Slice(acts, (p - 1) * size, p * size)

-----------------------------------------------------------------------------
(* One run of the script.  s is st.session_state as the run finds it (after *)
(* the widget values and the on_click callbacks of the event were applied); *)
(* the result is session_state and what the run rendered.                   *)

Session ==
    [page |-> page, have_results |-> have_results, active_cats |-> active_cats,
     use_preset |-> use_preset, cat_filter |-> cat_filter,
     cat_filter_new |-> cat_filter_new]

Widgets ==
    [city |-> city, page_size |-> page_size, sort_order |-> sort_order,
     ref_date |-> ref_date]

\* A run that stopped before rendering weather or activities (asked: whether
\* the run got all of Open-Meteo's answers).
Stopped(s, v) ==
    [s |-> s, view |-> v, asked |-> FALSE, acts_filtered |-> <<>>, pages |-> 0, page_slice |-> <<>>,
     lookups |-> <<>>, weather_rows |-> <<>>, rain_flag |-> FALSE, avg_temp |-> NaN]

\* 5. a pending programmatic category update is applied before the widget exists
ApplyPending(s) ==
    IF s.cat_filter_new # Absent
    THEN [s EXCEPT !.cat_filter = s.cat_filter_new,
                   !.active_cats = s.cat_filter_new[1],
                   !.cat_filter_new = Absent]
    ELSE s

\* 8. the multiselect keeps its value, or starts from active_cats; active_cats follows
CategoryWidget(s) ==
    LET cf == IF s.cat_filter # Absent THEN s.cat_filter ELSE Some(s.active_cats)
    IN  [s EXCEPT !.cat_filter = cf, !.active_cats = cf[1]]

\* 8. "manual change cancels pending preset"
CancelPending(s) ==
    IF s.use_preset /\ s.cat_filter[1] # preset_categories(FALSE, <<0, 1>>)
    THEN [s EXCEPT !.use_preset = FALSE]
    ELSE s

\* 8. the preset button only sets the flag
PresetButton(s, pressed) == IF pressed THEN [s EXCEPT !.use_preset = TRUE] ELSE s

\* 9. "Find Activities"
SearchTriggerKeepPage(s, pressed) == IF pressed THEN [s EXCEPT !.have_results = TRUE] ELSE s
SearchTrigger(s, pressed) ==
    IF pressed THEN [s EXCEPT !.have_results = TRUE, !.page = 1] ELSE s

\* 11. filter, sort, paginate; 12./13. render
Paginate(s, w, acts_raw, rows, verdict, dates) ==
    LET filtered == SortActs(FilterActs(acts_raw, s.active_cats), w.sort_order)
        total    == Len(filtered)
        n        == TotalPages(total, w.page_size)
        p        == Clamp(s.page, n)
    IN  [s |-> [s EXCEPT !.page = p], view |-> "results", asked |-> TRUE,
         acts_filtered |-> filtered, pages |-> n,
         page_slice |-> PageSlice(filtered, p, w.page_size),
         lookups |-> dates, weather_rows |-> rows,
         rain_flag |-> verdict[1], avg_temp |-> verdict[2]]

\* 10. weather table and verdict; a requested preset is stored and the script reruns
WeatherAndPreset(s, w, acts_raw, answers) ==
    LET weather == last_three_years_weather(w.ref_date, answers)
        rows    == weather.rows
        dates   == weather.requested
        verdict == IF rows # <<>> THEN classify_weather(rows) ELSE <<FALSE, NaN>>
    IN  IF s.use_preset
        THEN [Stopped([s EXCEPT !.cat_filter_new = Some(preset_categories(verdict[1], verdict[2])),
                                !.use_preset = FALSE], "rerun")
                EXCEPT !.asked = TRUE, !.lookups = dates, !.weather_rows = rows,
                       !.rain_flag = verdict[1], !.avg_temp = verdict[2]]
        ELSE Paginate(s, w, acts_raw, rows, verdict, dates)

\* The whole script.  w holds the widget values of this run, api is the answer
\* of Amadeus (token and activity search), answers those of Open-Meteo.
Script(s, w, ev, api, answers) ==
    LET s5 == ApplyPending(s)
    IN  IF ~w.city THEN Stopped(s5, "nocity")
        ELSE LET s8 == PresetButton(CancelPending(CategoryWidget(s5)), ev = "preset")
                 s9 == SearchTrigger(s8, ev = "find")
             IN  IF ~s9.have_results THEN Stopped(s9, "idle")
                 ELSE IF api.status # "ok" THEN Stopped(s9, "error")
                 ELSE IF WeatherRaises(answers) THEN Stopped(s9, "exception")
                 ELSE WeatherAndPreset(s9, w, api.data, answers)

Run(s, w, ev, api, answers) ==
    \E out \in {Script(s, w, ev, api, answers)} :
        /\ city' = w.city
        /\ page_size' = w.page_size
        /\ sort_order' = w.sort_order
        /\ ref_date' = w.ref_date
        /\ page' = out.s.page
        /\ have_results' = out.s.have_results
        /\ active_cats' = out.s.active_cats
        /\ use_preset' = out.s.use_preset
        /\ cat_filter' = out.s.cat_filter
        /\ cat_filter_new' = out.s.cat_filter_new
        /\ view' = out.view
        /\ acts_filtered' = out.acts_filtered
        /\ pages' = out.pages
        /\ page_slice' = out.page_slice
        /\ lookups' = out.lookups
        /\ weather_rows' = out.weather_rows
        /\ rain_flag' = out.rain_flag
        /\ avg_temp' = out.avg_temp
        /\ event' = ev
        /\ wx' = IF out.asked THEN answers ELSE NoAnswers
        /\ recording' = recording
        /\ awaiting' = IF recording # "awaiting" THEN awaiting
                       ELSE (IF view = "results" THEN {} ELSE awaiting)
                                \cup (IF ev = "find" THEN {"search"} ELSE {})
                                \cup (IF ev = "rerun" THEN {"preset"} ELSE {})
        /\ applied' = IF recording # "manual" THEN applied ELSE (applied \/ ev = "rerun")

-----------------------------------------------------------------------------
(* The session: widget values and what the outside world may answer.        *)

PageSizes  == {5, 10, 20}
SortOrders == {"None", "Rating-desc", "Rating-asc", "Price-desc", "Price-asc"}
\* The sort orders a user picks in a session.
SessionSorts == {"None", "Price-asc"}
Today      == <<2026, 11, 3>>

\* Category selections a user makes by hand.
Selections == {<<>>, <<"Wine">>, ColdPreset}

\* Travel dates a user picks.
TravelDates == {Today, <<2025, 12, 31>>}

\* The largest activity list Amadeus answers with in a session.
SessionActs == 12

Api(status, data) == [status |-> status, data |-> data]
ApiAnswers ==
    {Api("token_error", <<>>), Api("search_error", <<>>)}
        \cup {Api("ok", Catalogue(n)) : n \in {0, SessionActs}}

Raises   == Answer("raise", 0, 0, 0)
Http500  == Answer("http_error", 0, 0, 0)
NoDaily  == Answer("empty", 0, 0, 0)
WetCool  == Answer("ok", 120, 60, 21)
DryCool  == Answer("ok", 120, 60, 0)
DryWarm  == Answer("ok", 250, 150, 0)

WeatherAnswers ==
    {<<Http500, NoDaily, Http500>>, <<WetCool, WetCool, DryWarm>>,
     <<DryCool, NoDaily, DryCool>>, <<DryWarm, Raises, DryWarm>>}

\* What the two services answer to one run: Open-Meteo is asked only after
\* Amadeus answered.
Worlds ==
    {<<api, NoAnswers>> : api \in {a \in ApiAnswers : a.status # "ok"}}
        \cup ({a \in ApiAnswers : a.status = "ok"} \X WeatherAnswers)

\* After the first run of a new session: the defaults of section 4, no city.
SessionDefaults ==
    /\ page = 1 /\ have_results = FALSE /\ active_cats = <<>> /\ use_preset = FALSE
    /\ cat_filter = Absent /\ cat_filter_new = Absent
WidgetDefaults ==
    /\ city = FALSE /\ page_size = 10 /\ sort_order = "None" /\ ref_date = Today
NoActivities == acts_filtered = <<>> /\ pages = 0 /\ page_slice = <<>>
NoWeather ==
    /\ lookups = <<>> /\ weather_rows = <<>> /\ rain_flag = FALSE /\ avg_temp = NaN
NoHistory ==
    /\ event = "start" /\ wx = NoAnswers /\ awaiting = {} /\ applied = FALSE
    /\ manual = Absent

Defaults ==
    /\ SessionDefaults /\ WidgetDefaults /\ view = "nocity"
    /\ NoActivities /\ NoWeather /\ NoHistory

Init == Defaults /\ recording = "events"
InitAwaiting == Defaults /\ recording = "awaiting"
InitManual == Defaults /\ recording = "manual"

\* The widgets below the city box exist once a run got past section 6, and
\* no event is taken while a rerun is due.
Interactive == city /\ cat_filter_new = Absent

SelectCity ==
    /\ ~city /\ cat_filter_new = Absent
    /\ \E w \in Worlds :
           Run(Session, [Widgets EXCEPT !.city = TRUE], "city", w[1], w[2])
    /\ UNCHANGED manual

SetPageSize ==
    /\ Interactive
    /\ \E size \in PageSizes \ {page_size}, w \in Worlds :
           Run(Session, [Widgets EXCEPT !.page_size = size], "widget", w[1], w[2])
    /\ UNCHANGED manual

SetSortOrder ==
    /\ Interactive
    /\ \E order \in SessionSorts \ {sort_order}, w \in Worlds :
           Run(Session, [Widgets EXCEPT !.sort_order = order], "widget", w[1], w[2])
    /\ UNCHANGED manual

SetTravelDate ==
    /\ Interactive
    /\ \E dt \in TravelDates \ {ref_date}, w \in Worlds :
           Run(Session, [Widgets EXCEPT !.ref_date = dt], "widget", w[1], w[2])
    /\ UNCHANGED manual

EditCategories ==
    /\ Interactive
    /\ \E sel \in Selections \ {cat_filter[1]} :
         /\ \E w \in Worlds :
                Run([Session EXCEPT !.cat_filter = Some(sel)], Widgets, "cats", w[1], w[2])
         /\ manual' = IF recording = "manual" /\ applied THEN Some(sel) ELSE manual

PressPreset ==
    /\ Interactive
    /\ \E w \in Worlds : Run(Session, Widgets, "preset", w[1], w[2])
    /\ manual' = Absent

PressFind ==
    /\ Interactive
    /\ \E w \in Worlds : Run(Session, Widgets, "find", w[1], w[2])
    /\ UNCHANGED manual

\* 12. the buttons exist when results were rendered; on_click runs before the script
PressPrev ==
    /\ Interactive /\ view = "results" /\ page # 1
    /\ \E w \in Worlds :
           Run([Session EXCEPT !.page = page - 1], Widgets, "prev", w[1], w[2])
    /\ UNCHANGED manual

PressNext ==
    /\ Interactive /\ view = "results" /\ page # pages
    /\ \E w \in Worlds :
           Run([Session EXCEPT !.page = page + 1], Widgets, "next", w[1], w[2])
    /\ UNCHANGED manual

\* st.rerun(): the script runs again at once, with no widget touched
Rerun ==
    /\ cat_filter_new # Absent
    /\ \E w \in Worlds : Run(Session, Widgets, "rerun", w[1], w[2])
    /\ UNCHANGED manual

Next ==
    \/ SelectCity
    \/ SetPageSize
    \/ SetSortOrder
    \/ SetTravelDate
    \/ EditCategories
    \/ PressPreset
    \/ PressFind
    \/ PressPrev
    \/ PressNext
    \/ Rerun

Spec == Init /\ [][Next]_vars
SpecAwaiting == InitAwaiting /\ [][Next]_vars
SpecManual == InitManual /\ [][Next]_vars

-----------------------------------------------------------------------------
(* The pure functions on their own: Init draws the arguments, the action    *)
(* applies the function.                                                    *)

sessionVars == <<page, have_results, active_cats, use_preset, cat_filter, cat_filter_new>>
widgetVars  == <<city, page_size, sort_order, ref_date>>
historyVars == <<recording, awaiting, applied, manual>>

\* classify_weather on every list of up to MaxRows rows
MaxRows == 3
WetWarm == Answer("ok", 250, 150, 4)
SampleRows == {Row(<<2025, 11, 3>>, a) : a \in {WetCool, DryCool, DryWarm, WetWarm}}
RowLists == UNION {[1..k -> SampleRows] : k \in 0..MaxRows}

InitClassify ==
    /\ SessionDefaults /\ WidgetDefaults /\ view = "input" /\ NoActivities
    /\ lookups = <<>> /\ weather_rows \in RowLists /\ rain_flag = FALSE /\ avg_temp = NaN
    /\ NoHistory /\ recording = "events"

ApplyClassify ==
    /\ view = "input"
    /\ \E verdict \in {classify_weather(weather_rows)} :
           rain_flag' = verdict[1] /\ avg_temp' = verdict[2]
    /\ view' = "classified"
    /\ event' = "classify"
    /\ UNCHANGED <<sessionVars, widgetVars, historyVars, wx,
                   acts_filtered, pages, page_slice, lookups, weather_rows>>

SpecClassify == InitClassify /\ [][ApplyClassify]_vars

\* preset_categories on every verdict: rain or not, and NaN or a mean of one
\* to three midpoints, the sum of Max + Min at most MaxTempSum tenths either way
MaxTempSum == 1000
Temperatures ==
    {NaN} \cup {<<n, 2 * k>> : n \in (0 - MaxTempSum)..MaxTempSum, k \in 1..Lookback}

InitPreset ==
    /\ SessionDefaults /\ WidgetDefaults /\ view = "input" /\ NoActivities
    /\ lookups = <<>> /\ weather_rows = <<>>
    /\ rain_flag \in BOOLEAN /\ avg_temp \in Temperatures
    /\ NoHistory /\ recording = "events"

ApplyPreset ==
    /\ view = "input"
    /\ cat_filter_new' = Some(preset_categories(rain_flag, avg_temp))
    /\ view' = "preset"
    /\ event' = "preset"
    /\ UNCHANGED <<page, have_results, active_cats, use_preset, cat_filter,
                   widgetVars, historyVars, wx, acts_filtered, pages, page_slice,
                   lookups, weather_rows, rain_flag, avg_temp>>

SpecPreset == InitPreset /\ [][ApplyPreset]_vars

\* section 11 on every selection, sort order, page size and requested page,
\* and the first 0..MaxActs activities of the catalogue
MaxActs == 41
MaxRequestedPage == 4

InitPipeline ==
    /\ page \in 1..MaxRequestedPage /\ have_results = TRUE
    /\ active_cats \in Selections /\ cat_filter = Some(active_cats)
    /\ use_preset = FALSE /\ cat_filter_new = Absent
    /\ city = TRUE /\ page_size \in PageSizes /\ sort_order \in SortOrders
    /\ ref_date = Today
    /\ view = "input" /\ NoActivities /\ NoWeather /\ NoHistory /\ recording = "events"

ApplyPipeline ==
    /\ view = "input"
    /\ \E n \in 0..MaxActs :
         \E out \in {Paginate(Session, Widgets, Catalogue(n), <<>>, <<FALSE, NaN>>, <<>>)} :
            /\ page' = out.s.page
            /\ acts_filtered' = out.acts_filtered
            /\ pages' = out.pages
            /\ page_slice' = out.page_slice
            /\ view' = out.view
    /\ event' = "paginate"
    /\ UNCHANGED <<have_results, active_cats, use_preset, cat_filter, cat_filter_new,
                   widgetVars, historyVars, wx, lookups, weather_rows, rain_flag, avg_temp>>

SpecPipeline == InitPipeline /\ [][ApplyPipeline]_vars

\* last_three_years_weather on every travel date of the years FirstYear..LastYear
FirstYear == 2024
LastYear == 2027
Calendar ==
    {dt \in (FirstYear..LastYear) \X (1..12) \X (1..31) : dt[3] <= DaysInMonth(dt[1], dt[2])}
AnswerTriples == [1..Lookback -> {Raises, Http500, NoDaily, DryCool}]

InitLookback ==
    /\ SessionDefaults /\ city = FALSE /\ page_size = 10 /\ sort_order = "None"
    /\ ref_date \in Calendar
    /\ view = "input" /\ NoActivities /\ NoWeather /\ NoHistory /\ recording = "events"

ApplyLookback ==
    /\ view = "input"
    /\ \E answers \in AnswerTriples :
         \E weather \in {last_three_years_weather(ref_date, answers)} :
            /\ lookups' = weather.requested
            /\ weather_rows' = weather.rows
            /\ view' = IF weather.raised THEN "exception" ELSE "weather"
            /\ wx' = answers
    /\ event' = "lookback"
    /\ UNCHANGED <<sessionVars, widgetVars, historyVars, acts_filtered, pages,
                   page_slice, rain_flag, avg_temp>>

SpecLookback == InitLookback /\ [][ApplyLookback]_vars

-----------------------------------------------------------------------------
(* Properties *)

\* C1 (SpecClassify): for every list of 0..MaxRows rows, classify_weather gives
\* rain_flag = TRUE exactly when at least two rows have Precip > 0, and the
\* average is the mean of the midpoints; for no rows it gives FALSE and NaN.
C1_RainIffTwoWet ==
    view = "classified" =>
        LET wet == Cardinality({i \in DOMAIN weather_rows : weather_rows[i].Precip > 0})
            sum == SumSeq([i \in DOMAIN weather_rows |->
                              weather_rows[i].Max + weather_rows[i].Min])
        IN  /\ rain_flag <=> (wet >= 2)
            /\ weather_rows = <<>> => (~rain_flag /\ avg_temp[2] = 0)
            /\ weather_rows # <<>> =>
                   (avg_temp[2] > 0 /\ avg_temp[1] * 2 * Len(weather_rows) = sum * avg_temp[2])

\* C1 witness: three rows, exactly two of them wet, classified as rain.
C1_Witness ==
    /\ view = "classified" /\ Len(weather_rows) = 3 /\ rain_flag
    /\ Cardinality({i \in DOMAIN weather_rows : weather_rows[i].Precip > 0}) = 2

\* C2 (SpecPreset): preset_categories is total and decided in this order: rain
\* gives Museums, Restaurants, Historical, Sightseeing whatever the
\* temperature (NaN included); otherwise a temperature strictly below 15 gives
\* Museums, Historical, Tours, Sightseeing; otherwise (15 or more, or NaN) it
\* gives Wine, Historical.
C2_PresetTable ==
    view = "preset" =>
        LET below15 == avg_temp[2] # 0 /\ avg_temp[1] < 150 * avg_temp[2]
            result  == cat_filter_new[1]
        IN  /\ cat_filter_new # <<>>
            /\ rain_flag => result = <<"Museums", "Restaurants", "Historical", "Sightseeing">>
            /\ (~rain_flag /\ below15) =>
                   result = <<"Museums", "Historical", "Tours", "Sightseeing">>
            /\ (~rain_flag /\ ~below15) => result = <<"Wine", "Historical">>

\* C2 witness: no rain at exactly 15.0 degrees (a mean of two midpoints) gives
\* the warm preset.
C2_Witness ==
    /\ view = "preset" /\ ~rain_flag /\ avg_temp = <<600, 4>>
    /\ cat_filter_new = <<WarmPreset>>

\* C3 as stated (SpecAwaiting): the first results page rendered after a search
\* submission or after a preset was applied to the selection shows page 1.
C3_ResetOnSearchAndPreset ==
    (view = "results" /\ awaiting # {}) => page = 1

\* C3 amended (SpecAwaiting): the first results page rendered after a search
\* submission shows page 1; the run that applies a preset to the selection
\* keeps the page, cut to the number of pages of the newly filtered list.
C3_ResetOnSearchOnly ==
    [][/\ (view' = "results" /\ "search" \in awaiting') => page' = 1
       /\ (event' = "rerun" /\ view' = "results") =>
              page' = (IF page > pages' THEN pages' ELSE page)]_vars

\* C3 witness: results of several pages rendered by the run of a search
\* submission.
C3_Witness ==
    /\ view = "results" /\ event = "find" /\ "search" \in awaiting
    /\ pages >= 2 /\ page = 1

\* C4 (Spec): every rendered results page has 1 <= page <= pages, with
\* pages = max(1, ceil(count / page_size)) of the list it shows; Prev and Next
\* ask for the page one lower and one higher, which is shown unless the list
\* has fewer pages, and then the last page is shown (for Next onto a list
\* whose last page is the current one: the page stays).
C4_PageInRange ==
    [][/\ view' = "results" =>
              /\ pages' >= 1
              /\ (pages' - 1) * page_size' < Max2(1, Len(acts_filtered'))
              /\ Len(acts_filtered') <= pages' * page_size'
              /\ 1 <= page' /\ page' <= pages'
       /\ event' = "next" =>
              page' = (IF view' = "results" /\ page + 1 > pages' THEN pages' ELSE page + 1)
       /\ event' = "prev" =>
              page' = (IF view' = "results" /\ page - 1 > pages' THEN pages' ELSE page - 1)
       /\ (event' = "next" /\ view' = "results" /\ pages' = page) => page' = page]_vars

\* C4 witness: Next moved from page 2 to page 3, the last one.
C4_Witness ==
    view = "results" /\ event = "next" /\ page = 3 /\ pages = 3

\* C5 (SpecPipeline): for every filtered and sorted list and every page size,
\* the slices of pages 1..pages, in order, make up the list: every activity
\* is on exactly one page, and a slice is empty only when the list is.
C5_PagesCoverList ==
    view = "results" =>
        LET slices == [p \in 1..pages |-> PageSlice(acts_filtered, p, page_size)]
        IN  /\ pages = Max2(1, (Len(acts_filtered) + page_size - 1) \div page_size)
            /\ Concat(slices) = acts_filtered
            /\ \A i \in DOMAIN acts_filtered :
                   Cardinality({p \in 1..pages :
                       \E k \in DOMAIN slices[p] : slices[p][k] = acts_filtered[i]}) = 1
            /\ \A p \in 1..pages : slices[p] = <<>> => acts_filtered = <<>>
            /\ \A p \in 1..pages : Len(slices[p]) <= page_size
            /\ page_slice = slices[page]

\* C5 witness: 12 activities at 5 per page: three pages, the last with two.
C5_Witness ==
    /\ view = "results" /\ Len(acts_filtered) = 12 /\ page_size = 5
    /\ pages = 3 /\ page = 3 /\ Len(page_slice) = 2

\* C6 as stated (SpecManual): the selection changes by program only because
\* the preset button was pressed, each press replaces it at most once, and a
\* selection made by hand after a preset was applied is and stays the
\* selection in effect until the button is pressed again.
C6_ManualEditWins ==
    [][/\ (cat_filter_new' # Absent /\ cat_filter_new = Absent) =>
              ((use_preset \/ event' = "preset") /\ ~use_preset')
       /\ (active_cats' # active_cats) => event' \in {"cats", "rerun"}
       /\ manual' # Absent => (cat_filter_new' = Absent /\ active_cats' = manual'[1])]_vars

\* C7 as stated (Spec): when the token or the activity search fails in the run
\* of a search submission, nothing is rendered and page, selection, pending
\* preset flag and have_results are as they were before the submission.
C7_FailedSearchKeepsState ==
    [][(event' = "find" /\ view' = "error") =>
           /\ page_slice' = <<>> /\ acts_filtered' = <<>> /\ weather_rows' = <<>>
           /\ page' = page /\ have_results' = have_results
           /\ active_cats' = active_cats /\ use_preset' = use_preset]_vars

\* C8 as stated (Spec): a weather lookup never ends the run: a year whose
\* request fails or has no data is left out, the other years are kept, the
\* verdict is that of the remaining rows, and the activities are rendered.
C8_WeatherNeverFatal ==
    /\ view # "exception"
    /\ view \in {"results", "rerun"} =>
           /\ Len(weather_rows) = Cardinality({n \in 1..Lookback : wx[n].kind = "ok"})
           /\ weather_rows = <<>> => (~rain_flag /\ avg_temp[2] = 0)

\* C9 as stated (SpecLookback): the three lookups are for the month and day of
\* the travel date in the three years before it.
C9_SameDayThreeYearsBack ==
    view = "weather" =>
        \A n \in 1..Lookback :
            lookups[n] = <<ref_date[1] - n, ref_date[2], ref_date[3]>>

\* C10 as stated (Spec): a pending preset request is dropped only by a change
\* of the selection by hand or by being applied; the next run whose activity
\* fetch succeeds applies it; the rerun neither applies it again nor reruns.
C10_PendingPresetKept ==
    [][/\ (use_preset /\ ~use_preset') =>
              (event' = "cats" \/ cat_filter_new' # Absent)
       /\ (use_preset /\ event' # "cats" /\ view' \in {"results", "rerun", "exception"}) =>
              cat_filter_new' # Absent
       /\ event' = "rerun" => (cat_filter_new' = Absent /\ ~use_preset')]_vars

=============================================================================
